---- MODULE Spec2Model ----
(***************************************************************************)
(* A model of the van Emde Boas tree of src/src/lib.rs (struct VEBTree and *)
(* its iterator).  A tree value is a record with the fields of the struct; *)
(* Option<T> is a sequence of length 0 (None) or 1 (Some(v)); a call that  *)
(* panics is a result record with panic = TRUE that carries the tree as    *)
(* the panic left it.                                                      *)
(* Values stay far below 2^64 for the universes explored, so the u64       *)
(* shifts and ors never wrap and are modelled on the naturals.             *)
(***************************************************************************)
EXTENDS Integers, Sequences, FiniteSets, TLC

\* Largest universe size handed to VEBTree::new.
MaxUniverse == 6
\* How far beyond the universe the arguments of the calls range.
MaxOver == 1
\* Most insert and delete calls made on one tree.
MaxOps == 3
\* Most values one iterator is asked for before it is dropped.
MaxYield == 4

VARIABLES
    tree,       \* Option<VEBTree>: the tree the program holds, None before a successful new
    debug,      \* whether the build has debug assertions (debug_assert! is compiled in)
    S,          \* the reference set: the values inserted and not deleted since
    panicked,   \* a call has panicked; the thread is gone
    call,       \* the last call: [op, arg, ret, panic]
    ops,        \* how many insert and delete calls the tree has had
    last,       \* the last constructing or mutating call, with the tree and set before it
    iter,       \* Option<VEBTreeIterator>: the live iterator borrowing the tree
    yielded     \* what the live iterator's next() has returned so far (Some values only)

vars == <<tree, debug, S, panicked, call, ops, last, iter, yielded>>

----------------------------------------------------------------------------
\* Option<T>

None == <<>>
Some(v) == <<v>>
is_some(o) == Len(o) = 1
unwrap(o) == o[1]

\* 2^n, for the shifts and masks
RECURSIVE Pow2(_)
Pow2(n) == IF n = 0 THEN 1 ELSE 2 * Pow2(n - 1)

\* a | b on non-negative integers
RECURSIVE BitOr(_, _)
BitOr(a, b) ==
    IF a = 0 THEN b
    ELSE IF b = 0 THEN a
    ELSE (IF (a % 2 = 1) \/ (b % 2 = 1) THEN 1 ELSE 0) + 2 * BitOr(a \div 2, b \div 2)

\* ((universe as f64).ln() / 2f64.ln()) / 2f64, rounded up: the least c with 4^c >= universe
RECURSIVE ShiftCeilFrom(_, _)
ShiftCeilFrom(universe, c) ==
    IF Pow2(2 * c) >= universe THEN c ELSE ShiftCeilFrom(universe, c + 1)
ShiftCeil(universe) == ShiftCeilFrom(universe, 0)

\* the same quotient rounded down: the greatest f with 4^f <= universe
RECURSIVE ShiftFloorFrom(_, _)
ShiftFloorFrom(universe, f) ==
    IF Pow2(2 * (f + 1)) > universe THEN f ELSE ShiftFloorFrom(universe, f + 1)
ShiftFloor(universe) == ShiftFloorFrom(universe, 0)

\* (universe as f64).sqrt().ceil() as u64: the least r with r * r >= universe
RECURSIVE SqrtCeilFrom(_, _)
SqrtCeilFrom(universe, r) ==
    IF r * r >= universe THEN r ELSE SqrtCeilFrom(universe, r + 1)
SqrtCeil(universe) == SqrtCeilFrom(universe, 0)

----------------------------------------------------------------------------
\* Address arithmetic

high(self, x) == (x \div Pow2(self.high_shift)) % (self.high_mask + 1)

low(self, x) == x % (self.low_mask + 1)

index(self, i, j) == BitOr(i * Pow2(self.high_shift), j)

----------------------------------------------------------------------------
\* Construction

\* new refuses these universe sizes
InvalidUniverseMut(universe) == universe < 1
InvalidUniverse(universe) == universe <= 1

\* a node of this sqrt_universe is built without a summary
NoSummary(sqrt_universe) == sqrt_universe <= 2

\* the Ok branch of new: the struct literal, the summary built recursively
RECURSIVE NewTree(_)
NewTree(universe) ==
    LET sqrt_universe == SqrtCeil(universe) IN
    [ universe      |-> universe,
      low_mask      |-> Pow2(ShiftCeil(universe)) - 1,
      high_mask     |-> Pow2(ShiftFloor(universe)) - 1,
      high_shift    |-> ShiftCeil(universe),
      sqrt_universe |-> sqrt_universe,
      min           |-> None,
      max           |-> None,
      summary       |-> IF NoSummary(sqrt_universe) THEN None
                        ELSE Some(NewTree(sqrt_universe)),
      children      |-> [i \in 1..sqrt_universe |-> None] ]

\* Result<Self, &'static str>
new(universe) ==
    IF InvalidUniverse(universe)
    THEN [ok |-> FALSE, err |-> "universe size must be > 1"]
    ELSE [ok |-> TRUE, value |-> NewTree(universe)]

----------------------------------------------------------------------------
\* Observers

minimum(self) == self.min

maximum(self) == self.max

universe(self) == self.universe

is_empty(self) == ~is_some(self.min)

\* children.get(i): the slot, when i is in bounds
InBounds(self, i) == i + 1 \in 1..Len(self.children)
Child(self, i) == self.children[i + 1]

RECURSIVE contains(_, _)
contains(self, x) ==
    IF is_empty(self) \/ self.universe <= 2 \/ x >= self.universe
    THEN [ret |-> FALSE, panic |-> FALSE]
    ELSE IF ~is_some(self.max) THEN [ret |-> FALSE, panic |-> TRUE]
    ELSE IF x = unwrap(self.min) \/ x = unwrap(self.max)
    THEN [ret |-> TRUE, panic |-> FALSE]
    ELSE IF ~InBounds(self, high(self, x)) THEN [ret |-> FALSE, panic |-> TRUE]
    ELSE IF ~is_some(Child(self, high(self, x))) THEN [ret |-> FALSE, panic |-> FALSE]
    ELSE contains(unwrap(Child(self, high(self, x))), low(self, x))

\* find_next takes its first shortcut for these x: the minimum is the answer
BelowMinMut(self, x) == x <= unwrap(self.min)
BelowMin(self, x) == x < unwrap(self.min)

RECURSIVE find_next(_, _)
\* the closure of find_in_subtree applied to the summary's answer
find_in_subtree(self, x) ==
    IF ~is_some(self.summary) THEN [ret |-> None, panic |-> TRUE]
    ELSE LET r == find_next(unwrap(self.summary), high(self, x)) IN
         IF r.panic \/ ~is_some(r.ret) THEN r
         ELSE LET next_index == unwrap(r.ret) IN
              IF ~InBounds(self, next_index) THEN [ret |-> None, panic |-> TRUE]
              ELSE IF ~is_some(Child(self, next_index)) THEN [ret |-> None, panic |-> TRUE]
              ELSE IF ~is_some(unwrap(Child(self, next_index)).min)
              THEN [ret |-> None, panic |-> TRUE]
              ELSE [ret |-> Some(index(self, next_index,
                                       unwrap(unwrap(Child(self, next_index)).min))),
                    panic |-> FALSE]

find_next(self, x) ==
    IF is_empty(self) THEN [ret |-> None, panic |-> FALSE]
    ELSE IF self.universe = 2
    THEN IF x = 0 /\ self.max = Some(1)
         THEN [ret |-> Some(1), panic |-> FALSE]
         ELSE [ret |-> None, panic |-> FALSE]
    ELSE IF BelowMin(self, x) THEN [ret |-> self.min, panic |-> FALSE]
    ELSE LET subtree_index == high(self, x)
             lo == low(self, x)
         IN IF ~InBounds(self, subtree_index) THEN [ret |-> None, panic |-> TRUE]
            ELSE IF ~is_some(Child(self, subtree_index)) THEN find_in_subtree(self, x)
            ELSE LET subtree == unwrap(Child(self, subtree_index)) IN
                 IF ~is_some(subtree.max) THEN [ret |-> None, panic |-> TRUE]
                 ELSE IF lo < unwrap(subtree.max)
                 THEN LET r == find_next(subtree, lo) IN
                      IF r.panic \/ ~is_some(r.ret) THEN [ret |-> None, panic |-> TRUE]
                      ELSE [ret |-> Some(index(self, subtree_index, unwrap(r.ret))),
                            panic |-> FALSE]
                 ELSE find_in_subtree(self, x)

----------------------------------------------------------------------------
\* Insertion

empty_insert(self, x) == [self EXCEPT !.min = Some(x), !.max = Some(x)]

\* assert!(x < self.universe)
InsertAssertMut(self, x) == x <= self.universe
InsertAssert(self, x) == x < self.universe

\* the block under `if self.min == self.max` of insert
InsertSingle(self, x) ==
    LET a == IF x < unwrap(self.min) THEN [self EXCEPT !.min = Some(x)] ELSE self
    IN IF x > unwrap(a.max) THEN [a EXCEPT !.max = Some(x)] ELSE a

RECURSIVE insert(_, _, _)
\* the None arm of the match on the child slot
InsertNewChild(self, subtree_index, lo, dbg) ==
    IF dbg /\ ~is_some(self.summary) THEN [t |-> self, panic |-> TRUE]
    ELSE IF InvalidUniverse(self.sqrt_universe) THEN [t |-> self, panic |-> TRUE]
    ELSE LET new_tree == empty_insert(NewTree(self.sqrt_universe), lo)
             placed == [self EXCEPT !.children[subtree_index + 1] = Some(new_tree)]
         IN IF ~is_some(placed.summary) THEN [t |-> placed, panic |-> TRUE]
            ELSE LET r == insert(unwrap(placed.summary), subtree_index, dbg) IN
                 [t |-> [placed EXCEPT !.summary = Some(r.t)], panic |-> r.panic]

\* insert from `let subtree_index = self.high(x)` on
InsertIntoSubtree(self, x, dbg) ==
    LET subtree_index == high(self, x)
        lo == low(self, x)
    IN IF ~InBounds(self, subtree_index) THEN [t |-> self, panic |-> TRUE]
       ELSE IF is_some(Child(self, subtree_index))
       THEN LET r == insert(unwrap(Child(self, subtree_index)), lo, dbg) IN
            [t |-> [self EXCEPT !.children[subtree_index + 1] = Some(r.t)],
             panic |-> r.panic]
       ELSE InsertNewChild(self, subtree_index, lo, dbg)

insert(self, x0, dbg) ==
    IF ~InsertAssert(self, x0) THEN [t |-> self, panic |-> TRUE]
    ELSE IF is_empty(self) THEN [t |-> empty_insert(self, x0), panic |-> FALSE]
    ELSE IF ~is_some(self.max) THEN [t |-> self, panic |-> TRUE]
    ELSE LET s1 == IF self.min = self.max THEN InsertSingle(self, x0) ELSE self
             swap == x0 < unwrap(s1.min)
             x == IF swap THEN unwrap(s1.min) ELSE x0
             s2 == IF swap THEN [s1 EXCEPT !.min = Some(x0)] ELSE s1
             s3 == IF x > unwrap(s2.max) THEN [s2 EXCEPT !.max = Some(x)] ELSE s2
         IN InsertIntoSubtree(s3, x, dbg)

----------------------------------------------------------------------------
\* Deletion

\* `if self.min.unwrap() == x { self.min = ... }`: the tree and the x to go on with
DeleteMin(self, x) ==
    IF unwrap(self.min) # x THEN [t |-> self, x |-> x, panic |-> FALSE]
    ELSE IF ~is_some(self.summary) THEN [t |-> self, x |-> x, panic |-> TRUE]
    ELSE IF is_empty(unwrap(self.summary))
    THEN [t |-> [self EXCEPT !.min = self.max], x |-> x, panic |-> FALSE]
    ELSE LET j == unwrap(unwrap(self.summary).min) IN
         IF ~InBounds(self, j) THEN [t |-> self, x |-> x, panic |-> TRUE]
         ELSE IF ~is_some(Child(self, j)) THEN [t |-> self, x |-> x, panic |-> TRUE]
         ELSE IF ~is_some(unwrap(Child(self, j)).min)
         THEN [t |-> self, x |-> x, panic |-> TRUE]
         ELSE LET nx == unwrap(unwrap(Child(self, j)).min) IN
              [t |-> [self EXCEPT !.min = Some(nx)], x |-> nx, panic |-> FALSE]

\* `if self.max.unwrap() == x { self.max = ... }`
DeleteMax(self, x) ==
    IF ~is_some(self.max) THEN [t |-> self, panic |-> TRUE]
    ELSE IF unwrap(self.max) # x THEN [t |-> self, panic |-> FALSE]
    ELSE IF ~is_some(self.summary) THEN [t |-> self, panic |-> TRUE]
    ELSE IF is_empty(unwrap(self.summary))
    THEN [t |-> [self EXCEPT !.max = self.min], panic |-> FALSE]
    ELSE IF ~is_some(unwrap(self.summary).max) THEN [t |-> self, panic |-> TRUE]
    ELSE LET k == unwrap(unwrap(self.summary).max) IN
         IF ~InBounds(self, k) THEN [t |-> self, panic |-> TRUE]
         ELSE IF ~is_some(Child(self, k)) THEN [t |-> self, panic |-> TRUE]
         ELSE [t |-> [self EXCEPT !.max = unwrap(Child(self, k)).max], panic |-> FALSE]

RECURSIVE delete(_, _)
\* `if !summary!(self).is_empty() { ... } else { true }`
DeleteFromSubtree(self, x) ==
    IF ~is_some(self.summary) THEN [t |-> self, ret |-> FALSE, panic |-> TRUE]
    ELSE IF is_empty(unwrap(self.summary)) THEN [t |-> self, ret |-> TRUE, panic |-> FALSE]
    ELSE LET subtree_index == high(self, x)
             lo == low(self, x)
         IN IF ~InBounds(self, subtree_index)
            THEN [t |-> self, ret |-> FALSE, panic |-> TRUE]
            ELSE IF ~is_some(Child(self, subtree_index))
            THEN [t |-> self, ret |-> FALSE, panic |-> TRUE]
            ELSE LET r == delete(unwrap(Child(self, subtree_index)), lo)
                     after == [self EXCEPT !.children[subtree_index + 1] = Some(r.t)]
                 IN IF r.panic THEN [t |-> after, ret |-> FALSE, panic |-> TRUE]
                    ELSE IF ~is_empty(r.t) THEN [t |-> after, ret |-> r.ret, panic |-> FALSE]
                    ELSE LET taken == [self EXCEPT !.children[subtree_index + 1] = None]
                             d == delete(unwrap(taken.summary), subtree_index)
                         IN [t |-> [taken EXCEPT !.summary = Some(d.t)],
                             ret |-> r.ret, panic |-> d.panic]

delete(self, x0) ==
    IF is_empty(self) THEN [t |-> self, ret |-> FALSE, panic |-> FALSE]
    ELSE IF self.min = self.max /\ unwrap(self.min) = x0
    THEN [t |-> [self EXCEPT !.min = None, !.max = None], ret |-> TRUE, panic |-> FALSE]
    ELSE LET a == DeleteMin(self, x0) IN
         IF a.panic THEN [t |-> a.t, ret |-> FALSE, panic |-> TRUE]
         ELSE LET b == DeleteMax(a.t, a.x) IN
              IF b.panic THEN [t |-> b.t, ret |-> FALSE, panic |-> TRUE]
              ELSE DeleteFromSubtree(b.t, a.x)

----------------------------------------------------------------------------
\* Iteration

\* VEBTree::iter: the iterator borrows the tree, which `tree` holds
new_iter == [done |-> FALSE, prev |-> Some(0)]

\* VEBTreeIterator::next: the iterator after the call, and what it returns
next(self, it) ==
    IF is_some(it.prev)
    THEN LET r == find_next(self, unwrap(it.prev)) IN
         IF r.panic THEN [it |-> it, ret |-> None, panic |-> TRUE]
         ELSE [it |-> [it EXCEPT !.prev = r.ret], ret |-> r.ret, panic |-> FALSE]
    ELSE [it |-> it, ret |-> None, panic |-> FALSE]

----------------------------------------------------------------------------
\* The program: a client that constructs a tree and calls its methods

\* the arguments of the calls: every value of the universe and MaxOver beyond it
Args == IF is_some(tree) THEN 0..(unwrap(tree).universe + MaxOver - 1) ELSE {}

NoCall == [op |-> "none", arg |-> 0, ret |-> None, panic |-> FALSE]

NoLast == NoCall @@ [pre |-> None, preS |-> {}]

\* the record of the constructing or mutating call c made now
Remember(c) == c @@ [pre |-> tree, preS |-> S]

Init ==
    /\ tree = None
    /\ debug \in BOOLEAN
    /\ S = {}
    /\ panicked = FALSE
    /\ call = NoCall
    /\ ops = 0
    /\ last = NoLast
    /\ iter = None
    /\ yielded = <<>>

\* let tree = VEBTree::new(u): Ok is unwrapped into `tree`, Err leaves no tree to use
New(u) ==
    /\ ~panicked
    /\ tree = None
    /\ LET r == new(u)
           c == [op |-> "new", arg |-> u, ret |-> IF r.ok THEN "Ok" ELSE "Err",
                 panic |-> FALSE]
       IN /\ tree' = IF r.ok THEN Some(r.value) ELSE None
          /\ call' = c
          /\ last' = Remember(c)
    /\ S' = {}
    /\ ops' = 0
    /\ UNCHANGED <<debug, panicked, iter, yielded>>

\* tree.insert(x)
InsertCall(x) ==
    /\ ~panicked
    /\ is_some(tree)
    /\ iter = None
    /\ ops' = ops + 1
    /\ LET r == insert(unwrap(tree), x, debug)
           c == [op |-> "insert", arg |-> x, ret |-> None, panic |-> r.panic]
       IN /\ tree' = Some(r.t)
          /\ panicked' = r.panic
          /\ call' = c
          /\ last' = Remember(c)
    /\ S' = IF x < unwrap(tree).universe THEN S \cup {x} ELSE S
    /\ UNCHANGED <<debug, iter, yielded>>

\* tree.delete(x)
DeleteCall(x) ==
    /\ ~panicked
    /\ is_some(tree)
    /\ iter = None
    /\ ops' = ops + 1
    /\ LET r == delete(unwrap(tree), x)
           c == [op |-> "delete", arg |-> x, ret |-> r.ret, panic |-> r.panic]
       IN /\ tree' = Some(r.t)
          /\ panicked' = r.panic
          /\ call' = c
          /\ last' = Remember(c)
    /\ S' = S \ {x}
    /\ UNCHANGED <<debug, iter, yielded>>

\* the client of Spec makes at most MaxOps insert and delete calls on a tree
Insert(x) == ops < MaxOps /\ InsertCall(x)

Delete(x) == ops < MaxOps /\ DeleteCall(x)

\* tree.contains(x)
Contains(x) ==
    /\ ~panicked
    /\ is_some(tree)
    /\ iter = None
    /\ LET r == contains(unwrap(tree), x) IN
       /\ panicked' = r.panic
       /\ call' = [op |-> "contains", arg |-> x, ret |-> r.ret, panic |-> r.panic]
    /\ UNCHANGED <<tree, debug, S, ops, last, iter, yielded>>

\* tree.find_next(x)
FindNext(x) ==
    /\ ~panicked
    /\ is_some(tree)
    /\ iter = None
    /\ LET r == find_next(unwrap(tree), x) IN
       /\ panicked' = r.panic
       /\ call' = [op |-> "find_next", arg |-> x, ret |-> r.ret, panic |-> r.panic]
    /\ UNCHANGED <<tree, debug, S, ops, last, iter, yielded>>

\* let it = tree.iter(): the iterator borrows the tree until it is dropped
Iter ==
    /\ ~panicked
    /\ is_some(tree)
    /\ iter = None
    /\ iter' = Some(new_iter)
    /\ yielded' = <<>>
    /\ call' = [op |-> "iter", arg |-> 0, ret |-> None, panic |-> FALSE]
    /\ UNCHANGED <<tree, debug, S, panicked, ops, last>>

\* it.next()
Next_ ==
    /\ ~panicked
    /\ is_some(iter)
    /\ Len(yielded) < MaxYield
    /\ LET r == next(unwrap(tree), unwrap(iter)) IN
       /\ iter' = Some(r.it)
       /\ yielded' = IF is_some(r.ret) THEN Append(yielded, unwrap(r.ret)) ELSE yielded
       /\ panicked' = r.panic
       /\ call' = [op |-> "next", arg |-> 0, ret |-> r.ret, panic |-> r.panic]
    /\ UNCHANGED <<tree, debug, S, ops, last>>

\* the iterator goes out of scope
DropIter ==
    /\ ~panicked
    /\ is_some(iter)
    /\ iter' = None
    /\ yielded' = <<>>
    /\ call' = NoCall
    /\ UNCHANGED <<tree, debug, S, panicked, ops, last>>

Next ==
    \/ \E u \in 0..MaxUniverse : New(u)
    \/ \E x \in Args : Insert(x)
    \/ \E x \in Args : Delete(x)
    \/ \E x \in Args : Contains(x)
    \/ \E x \in Args : FindNext(x)
    \/ Iter
    \/ Next_
    \/ DropIter

Spec == Init /\ [][Next]_vars

\* A second client, the shape of the is_empty and delete tests: it fills a tree with
\* up to MaxFill inserts and then deletes the elements it inserted, each once, in any
\* order.  Its universes are those of Spec and DeepUniverse, the first universe whose
\* summary has a summary of its own.
MaxFill == 3
DeepUniverse == 17

\* the values of the universe
InRange == IF is_some(tree) THEN 0..(unwrap(tree).universe - 1) ELSE {}

FillInsert(x) ==
    /\ last.op \in {"new", "insert"}
    /\ ops < MaxFill
    /\ InsertCall(x)

DrainDelete(x) == x \in S /\ DeleteCall(x)

NextDrain ==
    \/ \E u \in (2..MaxUniverse) \cup {DeepUniverse} : New(u)
    \/ \E x \in InRange : FillInsert(x)
    \/ \E x \in InRange : DrainDelete(x)

SpecDrain == Init /\ [][NextDrain]_vars

----------------------------------------------------------------------------
\* Properties

\* the tree the program holds
T == unwrap(tree)

\* the least and the greatest element of a non-empty set of numbers
Least(A) == CHOOSE m \in A : \A y \in A : m <= y
Greatest(A) == CHOOSE m \in A : \A y \in A : y <= m

\* the elements of A in ascending order
RECURSIVE Ascending(_)
Ascending(A) == IF A = {} THEN <<>> ELSE <<Least(A)>> \o Ascending(A \ {Least(A)})

\* the set the tree answers for: the in-range x that contains(x) accepts
Members(t) == {x \in 0..(t.universe - 1) : contains(t, x).ret}

\* C1: after each insert or delete, contains(x) completes and says whether x is in
\* the reference set S, for every x in [0, U).
C1_ContainsMatchesSet ==
    (call.op = "contains" /\ call.arg < T.universe)
        => (~call.panic /\ call.ret = (call.arg \in S))

C3_MinMaxMatchSet ==
    (is_some(tree) /\ ~panicked)
        => IF S = {}
           THEN minimum(T) = None /\ maximum(T) = None
           ELSE minimum(T) = Some(Least(S)) /\ maximum(T) = Some(Greatest(S))

\* C4: delete(x) with x in [0, U) returns true iff x was in S before the call, and
\* afterwards the tree holds S without x.
C4_DeleteReturnsMembership ==
    (last.op = "delete" /\ last.arg < T.universe)
        => /\ ~last.panic
           /\ last.ret = (last.arg \in last.preS)
           /\ Members(T) = last.preS \ {last.arg}

\* C5: an iterator run to exhaustion has yielded every element of S exactly once, in
\* ascending order, 0 included, and nothing else.
C5_IterYieldsSet ==
    (is_some(iter) /\ ~panicked /\ unwrap(iter).prev = None)
        => yielded = Ascending(S)

\* C6: insert(x) with x already in S completes and leaves the whole tree as it was.
C6_InsertIdempotent ==
    (last.op = "insert" /\ last.arg \in last.preS)
        => (~last.panic /\ tree = last.pre)

\* C7: after insert(x) with x in [0, U) and not in S, the insert has completed and
\* delete(x) completes and gives back the tree as it was before the insert.
C7_InsertDeleteRoundTrip ==
    (last.op = "insert" /\ last.arg < T.universe /\ last.arg \notin last.preS)
        => /\ ~last.panic
           /\ ~delete(T, last.arg).panic
           /\ Some(delete(T, last.arg).t) = last.pre

\* C8: delete(x) with x not in S, in range or not, completes and changes nothing of
\* the tree.
C8_DeleteAbsentNoop ==
    (last.op = "delete" /\ last.arg \notin last.preS)
        => (~last.panic /\ tree = last.pre)

\* C9: insert(x) with x >= universe panics and leaves the tree as it was.
C9_InsertOutOfRangePanics ==
    (last.op = "insert" /\ last.arg >= T.universe)
        => (last.panic /\ panicked /\ tree = last.pre /\ S = last.preS)

\* C9 witness: an out-of-range insert on a tree that holds an element has panicked.
C9_Witness ==
    /\ last.op = "insert"
    /\ last.arg >= T.universe
    /\ S # {}
    /\ panicked

\* C10: new(0) and new(1) return an error; new(U) with U >= 2 returns a tree with
\* is_empty() true, minimum() and maximum() absent and universe() = U.
C10_NewContract ==
    (call.op = "new")
        => IF call.arg <= 1
           THEN call.ret = "Err" /\ tree = None
           ELSE /\ call.ret = "Ok"
                /\ is_some(tree)
                /\ is_empty(T)
                /\ minimum(T) = None
                /\ maximum(T) = None
                /\ universe(T) = call.arg

\* C10 witness: new has returned a tree for the smallest universe it accepts.
C10_Witness ==
    /\ call.op = "new"
    /\ call.arg = 2
    /\ call.ret = "Ok"
    /\ is_some(tree)

\* C11: for every x >= universe, contains(x) returns false and find_next(x) returns
\* absent, and neither panics.
C11_ObserversTolerateOutOfRange ==
    /\ (call.op = "contains" /\ call.arg >= T.universe)
           => (~call.panic /\ call.ret = FALSE)
    /\ (call.op = "find_next" /\ call.arg >= T.universe)
           => (~call.panic /\ call.ret = None)

\* C12: find_next(x) completes and returns the least element of S strictly greater
\* than x, and none when S has no such element: none on an empty tree, and on a tree
\* holding the single v some value for x < v and none for x = v.
C12_FindNextIsStrictSuccessor ==
    (call.op = "find_next")
        => /\ ~call.panic
           /\ call.ret = (IF \E y \in S : y > call.arg
                          THEN Some(Least({y \in S : y > call.arg}))
                          ELSE None)

\* C13: once every element inserted has been deleted again, the last delete has
\* completed and the tree is empty: is_empty() is true and minimum() and maximum()
\* are absent.
C13_EmptyAfterTotalDeletion ==
    (last.op = "delete" /\ S = {})
        => /\ ~panicked
           /\ is_empty(T)
           /\ minimum(T) = None
           /\ maximum(T) = None

\* each value of the sequence is greater than the one before
StrictlyIncreasing(seq) == \A i \in 1..(Len(seq) - 1) : seq[i] < seq[i + 1]

\* C14: while an iterator lives no next() panics, the values yielded are strictly
\* increasing and at most |S|, after |S| values the next next() returns none, and an
\* exhausted iterator returns none again and stays exhausted.
C14_IterationFinite ==
    is_some(iter)
        => /\ ~panicked
           /\ StrictlyIncreasing(yielded)
           /\ Len(yielded) <= Cardinality(S)
           /\ Len(yielded) = Cardinality(S)
                  => (~next(T, unwrap(iter)).panic /\ next(T, unwrap(iter)).ret = None)
           /\ unwrap(iter).prev = None
                  => /\ next(T, unwrap(iter)).ret = None
                     /\ next(T, unwrap(iter)).it = unwrap(iter)

\* C15: no insert, delete, contains or find_next whose argument lies in
\* 0..universe-1 panics.
C15_InRangeNeverPanics ==
    (/\ call.op \in {"insert", "delete", "contains", "find_next"}
     /\ call.arg < T.universe)
        => ~call.panic

\* the keys a node holds: its min, its max, and the keys of its children put back
\* together with index
RECURSIVE Stored(_)
Stored(t) ==
    {unwrap(t.min) : k \in {1} \cap {Len(t.min)}}
        \cup {unwrap(t.max) : k \in {1} \cap {Len(t.max)}}
        \cup UNION {{index(t, i, e) : e \in Stored(unwrap(Child(t, i)))}
                       : i \in {j \in 0..(Len(t.children) - 1) : is_some(Child(t, j))}}

\* x is stored in children[high(x)] under key low(x)
StoredInChild(t, x) ==
    /\ InBounds(t, high(t, x))
    /\ is_some(Child(t, high(t, x)))
    /\ low(t, x) \in Stored(unwrap(Child(t, high(t, x))))

\* a node with the set A keeps its min out of its children and every other element
\* of A in its children, and so does every child with the set it stores
RECURSIVE MinOutsideChildren(_, _)
MinOutsideChildren(t, A) ==
    /\ is_some(t.min) => ~StoredInChild(t, unwrap(t.min))
    /\ \A x \in A \ {unwrap(t.min) : k \in {1} \cap {Len(t.min)}} : StoredInChild(t, x)
    /\ \A i \in 0..(Len(t.children) - 1) :
           is_some(Child(t, i))
               => MinOutsideChildren(unwrap(Child(t, i)), Stored(unwrap(Child(t, i))))

\* C16: after every insert and delete that completes, at every node the min is not
\* stored in any child and every other element of the node's set, max included, is
\* stored in children[high(x)] under key low(x).
C16_MinOutsideChildren ==
    (last.op \in {"insert", "delete"} /\ ~panicked) => MinOutsideChildren(T, S)

\* at a node with a summary, cluster i is in the summary exactly when children[i] is
\* present, and exactly when children[i] is non-empty; the same at every child and
\* at the summary itself
RECURSIVE LockStep(_)
LockStep(t) ==
    /\ is_some(t.summary)
           => /\ \A i \in 0..(Len(t.children) - 1) :
                     /\ contains(unwrap(t.summary), i).ret <=> is_some(Child(t, i))
                     /\ is_some(Child(t, i)) => ~is_empty(unwrap(Child(t, i)))
              /\ LockStep(unwrap(t.summary))
    /\ \A i \in 0..(Len(t.children) - 1) :
           is_some(Child(t, i)) => LockStep(unwrap(Child(t, i)))

\* C17: after every insert and delete that completes, at every node that has a
\* summary, i is a member of the summary iff children[i] is present iff children[i]
\* is non-empty.
C17_SummaryChildrenLockStep ==
    (last.op \in {"insert", "delete"} /\ ~panicked) => LockStep(T)

\* a node of universe above 2 has a summary of universe sqrt_universe, only a node
\* of universe 2 has none, and the same holds of its summary and of every child
RECURSIVE SummaryWhereNeeded(_)
SummaryWhereNeeded(t) ==
    /\ t.universe > 2
           => /\ is_some(t.summary)
              /\ unwrap(t.summary).universe = t.sqrt_universe
    /\ ~is_some(t.summary) => t.universe = 2
    /\ is_some(t.summary) => SummaryWhereNeeded(unwrap(t.summary))
    /\ \A i \in 0..(Len(t.children) - 1) :
           is_some(Child(t, i)) => SummaryWhereNeeded(unwrap(Child(t, i)))

\* C18: every node constructed with universe above 2, the root and every child and
\* summary below it, has a summary of universe sqrt_universe; only nodes of
\* universe 2 have none.
C18_SummaryPresentAboveTwo ==
    is_some(tree) => SummaryWhereNeeded(T)

\* C19: for every x below the universe of the tree, index(high(x), low(x)) = x,
\* high(x) is a child slot of the node and low(x) is below sqrt_universe, the
\* universe of a child; so no two such x share a (high, low) pair.
C19_AddressBijection ==
    is_some(tree)
        => /\ \A x \in 0..(T.universe - 1) :
                  /\ index(T, high(T, x), low(T, x)) = x
                  /\ high(T, x) < Len(T.children)
                  /\ Len(T.children) = T.sqrt_universe
                  /\ low(T, x) < T.sqrt_universe
           /\ \A x, y \in 0..(T.universe - 1) :
                  (high(T, x) = high(T, y) /\ low(T, x) = low(T, y)) => x = y

\* C20: a tree of universe 2 is a correct set over {0, 1} that never touches a child:
\* no call on it panics, contains agrees with S, with both 0 and 1 inserted
\* minimum() = 0 and maximum() = 1, and after delete(0) from {0, 1} minimum() =
\* maximum() = 1 and contains(0) is false.
C20_BaseCaseUniverseTwo ==
    (is_some(tree) /\ T.universe = 2)
        => /\ ~panicked
           /\ \A i \in 0..(Len(T.children) - 1) : ~is_some(Child(T, i))
           /\ \A x \in {0, 1} : contains(T, x).ret <=> x \in S
           /\ S = {0, 1} => (minimum(T) = Some(0) /\ maximum(T) = Some(1))
           /\ (last.op = "delete" /\ last.arg = 0 /\ last.preS = {0, 1})
                  => /\ minimum(T) = Some(1)
                     /\ maximum(T) = Some(1)
                     /\ ~contains(T, 0).ret

\* the value insert goes on to place below a non-empty node: the old minimum when x
\* is swapped with it, x itself otherwise
Placed(pre, x) ==
    IF pre.min # pre.max /\ x < unwrap(pre.min) THEN unwrap(pre.min) ELSE x

\* post is pre after one insert(x) that went into exactly one of the target child
\* and the summary: an empty node touches neither; where the target child was
\* there it alone is inserted into and the summary is as before; where it was
\* absent the slot holds a fresh tree with min = max = low(x) and the summary is
\* the old summary after one insert(high(x)); the node recursed into has the same
\* shape
RECURSIVE InsertShape(_, _, _)
InsertShape(pre, post, x) ==
    IF is_empty(pre)
    THEN post.children = pre.children /\ post.summary = pre.summary
    ELSE LET p == Placed(pre, x)
             subtree_index == high(pre, p)
             lo == low(pre, p)
         IN /\ InBounds(pre, subtree_index)
            /\ \A j \in 0..(Len(pre.children) - 1) :
                   j # subtree_index => Child(post, j) = Child(pre, j)
            /\ IF is_some(Child(pre, subtree_index))
               THEN /\ post.summary = pre.summary
                    /\ is_some(Child(post, subtree_index))
                    /\ InsertShape(unwrap(Child(pre, subtree_index)),
                                   unwrap(Child(post, subtree_index)), lo)
               ELSE /\ Child(post, subtree_index)
                           = Some(empty_insert(NewTree(pre.sqrt_universe), lo))
                    /\ is_some(pre.summary)
                    /\ post.summary
                           = Some(insert(unwrap(pre.summary), subtree_index, debug).t)
                    /\ InsertShape(unwrap(pre.summary), unwrap(post.summary),
                                   subtree_index)

\* C21: an insert(x) with x below the universe recurses, at every node it reaches,
\* into the target child or into the summary and never both: an absent child is
\* created with min = max = low(x) and one summary.insert(high(x)) is made, a
\* present child gets one insert(low(x)) and the summary is not touched.
C21_InsertRecursesOnce ==
    (last.op = "insert" /\ last.arg < unwrap(last.pre).universe)
        => InsertShape(unwrap(last.pre), T, last.arg)

====
